---- MODULE Spec2Model ----
(***************************************************************************)
(* Model of code_1D/TimeScheme.cpp: the time-integration core of a 1D      *)
(* shallow-water finite-volume solver (TimeScheme, ExplicitEuler, RK2).    *)
(*                                                                         *)
(* Reals (C++ double) are modelled as exact rationals <<num, den>> in      *)
(* lowest terms with den > 0; rounding of IEEE arithmetic is not modelled. *)
(* Cell and probe indices keep the 0-based values of the C++ code.         *)
(***************************************************************************)
EXTENDS Integers, Sequences, FiniteSets, TLC

\* ------------------------------------------------------------------------
\* Bounds of the model
\* ------------------------------------------------------------------------
MaxFinalTime == 6
MaxProbes == 2
MaxStepFinalTime == 2

\* ------------------------------------------------------------------------
\* double arithmetic, as exact rationals
\* ------------------------------------------------------------------------
RECURSIVE GCD(_, _)
GCD(a, b) ==
  IF b = 0 THEN a ELSE GCD(b, a % b)

IAbs(i) ==
  IF i < 0 THEN -i ELSE i

RNorm(num, den) ==
  LET g == GCD(IAbs(num), den)
  IN  <<num \div g, den \div g>>

R(i) ==
  <<i, 1>>

Q(num, den) ==
  RNorm(num, den)

RAdd(a, b) ==
  RNorm(a[1] * b[2] + b[1] * a[2], a[2] * b[2])

RNeg(a) ==
  <<-a[1], a[2]>>

RSub(a, b) ==
  RAdd(a, RNeg(b))

RMul(a, b) ==
  RNorm(a[1] * b[1], a[2] * b[2])

\* a / b for b # 0
RDiv(a, b) ==
  IF b[1] > 0 THEN RNorm(a[1] * b[2], a[2] * b[1])
              ELSE RNorm(-(a[1] * b[2]), a[2] * (-b[1]))

RLess(a, b) ==
  a[1] * b[2] < b[1] * a[2]

RLeq(a, b) ==
  a[1] * b[2] <= b[1] * a[2]

\* abs(double)
RAbs(a) ==
  <<IAbs(a[1]), a[2]>>

Zero == R(0)
Half == Q(1, 2)

\* ------------------------------------------------------------------------
\* Eigen::Matrix<double, Dynamic, 2>: a sequence of rows <<h, q>>
\* ------------------------------------------------------------------------
\* The matrix operators bind their operands (a \in {A}) before they work on them,
\* so that an operand is evaluated once.

\* the first k rows of A + B
RECURSIVE MAddRows(_, _, _)
MAddRows(A, B, k) ==
  IF k = 0 THEN <<>>
  ELSE Append(MAddRows(A, B, k - 1), <<RAdd(A[k][1], B[k][1]), RAdd(A[k][2], B[k][2])>>)

MAdd(A, B) ==
  CHOOSE M \in {MAddRows(a, b, Len(a)) : a \in {A}, b \in {B}} : TRUE

\* the first k rows of r * A
RECURSIVE MScaleRows(_, _, _)
MScaleRows(r, A, k) ==
  IF k = 0 THEN <<>>
  ELSE Append(MScaleRows(r, A, k - 1), <<RMul(r, A[k][1]), RMul(r, A[k][2])>>)

MScale(r, A) ==
  CHOOSE M \in {MScaleRows(x, a, Len(a)) : x \in {r}, a \in {A}} : TRUE

\* the first k rows of A / r
RECURSIVE MDivRows(_, _, _)
MDivRows(A, r, k) ==
  IF k = 0 THEN <<>>
  ELSE Append(MDivRows(A, r, k - 1), <<RDiv(A[k][1], r), RDiv(A[k][2], r)>>)

MDiv(A, r) ==
  CHOOSE M \in {MDivRows(a, x, Len(a)) : a \in {A}, x \in {r}} : TRUE

RECURSIVE MConst(_, _)
MConst(nRows, r) ==
  IF nRows = 0 THEN <<>> ELSE Append(MConst(nRows - 1, r), <<r, r>>)

\* ------------------------------------------------------------------------
\* Collaborators (DataFile, Mesh, Physics, FiniteVolume): the values a run
\* is configured with.  One configuration record stands for the four
\* collaborator objects handed to the constructor and to Initialize.
\* ------------------------------------------------------------------------
Schemes == {"ExplicitEuler", "RK2"}

\* Mesh::getCellCenters(), Mesh::getSpaceStep(), Mesh::getNumberOfCells()
Mesh5 == [cellCenters |-> <<R(0), R(1), R(2), R(3), R(4)>>, spaceStep |-> R(1)]
Mesh3 == [cellCenters |-> <<R(1), R(3), R(5)>>, spaceStep |-> R(2)]
Mesh2 == [cellCenters |-> <<Q(1, 4), Q(3, 4)>>, spaceStep |-> Q(1, 2)]

\* Physics::getInitialCondition(): uniform height 1, discharge 0; or a ramp
UniformIC(nRows) ==
  [i \in 1..nRows |-> <<R(1), R(0)>>]

RampIC(nRows) ==
  [i \in 1..nRows |-> <<R(i), Half>>]

TimeSteps == {Half, R(1), Q(4, 3)}

SaveFrequencies == {1, 4, 10, 20, 25}

ProbePositions ==
  {R(0 - 1), R(0), Half, Q(12, 5), Q(5, 2), Q(29, 10), Q(7, 2), R(4), R(9)}

RECURSIVE SeqsUpTo(_, _)
SeqsUpTo(S, len) ==
  IF len = 0 THEN {<<>>}
  ELSE LET shorter == SeqsUpTo(S, len - 1)
       IN  shorter \cup {Append(q, x) : q \in {r \in shorter : Len(r) = len - 1}, x \in S}

InitialCondition(kind, nRows) ==
  IF kind = "uniform" THEN UniformIC(nRows) ELSE RampIC(nRows)

MkConfig(scheme, mesh, icKind, dt, t0, tf, f, sfo, pos, fk, sk, c) ==
  [scheme |-> scheme,
   cellCenters |-> mesh.cellCenters,
   spaceStep |-> mesh.spaceStep,
   initialCondition |-> InitialCondition(icKind, Len(mesh.cellCenters)),
   timeStep |-> dt,
   initialTime |-> t0,
   finalTime |-> tf,
   saveFrequency |-> f,
   saveFinalTimeOnly |-> sfo,
   probesPos |-> pos,
   probesRef |-> [i \in 1..Len(pos) |-> 100 + i],
   fluxKind |-> fk,
   sourceKind |-> sk,
   c |-> c]

\* runs that exercise the time loop, the snapshot cadence and the probes
DriverConfigs ==
  {MkConfig(scheme, Mesh2, "uniform", dt, t0, R(tf), f, sfo, pos, fk, "zero", R(1)) :
     scheme \in Schemes, dt \in TimeSteps, t0 \in {R(0), R(2)}, tf \in 0..MaxFinalTime,
     f \in SaveFrequencies, sfo \in BOOLEAN,
     pos \in {[i \in 1..k |-> Q(i, 2)] : k \in 0..MaxProbes},
     fk \in {"zero", "const"}}

\* runs that exercise the schemes on constant providers, for varied dt, dx, c
ConstConfigs ==
  {MkConfig(scheme, mesh, icKind, dt, R(0), R(tf), 1, FALSE, <<>>, fk, sk, c) :
     scheme \in Schemes, mesh \in {Mesh5, Mesh3, Mesh2}, icKind \in {"uniform", "ramp"},
     dt \in TimeSteps, tf \in 1..MaxStepFinalTime,
     fk \in {"zero", "const"}, sk \in {"zero", "const"},
     c \in {R(1), Q(0 - 2, 3)}}

\* runs that exercise the schemes on providers that depend on time and state
LinearConfigs ==
  {MkConfig(scheme, mesh, "ramp", dt, R(0), R(tf), 1, FALSE, <<>>, fk, sk, R(1)) :
     scheme \in Schemes, mesh \in {Mesh5, Mesh3},
     dt \in {R(1), R(2)}, tf \in 1..MaxStepFinalTime,
     fk \in {"zero", "const", "linear"}, sk \in {"zero", "linear"}}

StepConfigs == ConstConfigs \cup LinearConfigs

\* runs that exercise the probe resolution
ProbeConfigs ==
  {MkConfig("ExplicitEuler", mesh, "uniform", R(1), R(0), R(1), 10, FALSE, pos, "zero", "zero", R(1)) :
     mesh \in {Mesh5, Mesh3}, pos \in SeqsUpTo(ProbePositions, MaxProbes)}

Configs == DriverConfigs \cup StepConfigs \cup ProbeConfigs

\* ------------------------------------------------------------------------
\* State
\* ------------------------------------------------------------------------
VARIABLES
  cfg,            \* the collaborators' values (DataFile, Mesh, Physics, FiniteVolume)
  build,          \* what this build does on the integer division by zero of line 165
  ctor,           \* the constructor that built the object
  initialized,    \* the Initialize body that has run, or "none"
  ready,          \* every member solve() reads holds a determinate value
  pc,             \* "Constructed", "Stepping", "Finished" or "Crashed"
  Sol,            \* _Sol
  timeStep,       \* _timeStep
  initialTime,    \* _initialTime
  finalTime,      \* _finalTime
  currentTime,    \* _currentTime
  nProbes,        \* _nProbes
  probesRef,      \* _probesRef
  probesPos,      \* _probesPos
  probesIndices,  \* _probesIndices
  n,              \* the iteration counter of solve()
  files,          \* the files written with std::ios::out, by name
  snapshots,      \* the calls of saveCurrentSolution, in order
  probeFiles,     \* the probe files (std::ios::app), by probe reference
  fluxVector,     \* FiniteVolume's result buffer (getFluxVector)
  sourceTerm,     \* Physics' result buffer (getSourceTerm)
  calls           \* the collaborator calls of the latest oneStep(), in order

vars ==
  <<cfg, build, ctor, initialized, ready, pc, Sol, timeStep, initialTime, finalTime,
    currentTime, nProbes, probesRef, probesPos, probesIndices, n, files, snapshots,
    probeFiles, fluxVector, sourceTerm, calls>>

\* an indeterminate double / int (a member no constructor or Initialize has set);
\* never read by the model: solve() is modelled on ready objects only
NaR == <<0, 0>>
IndetInt == 0 - 1

NbCells == Len(cfg.cellCenters)

\* the values an uninitialised double may hold
GarbageValues == {R(0), R(7)}

GarbageMatrices(nRows) ==
  {[i \in 1..nRows |-> <<g, h>>] : g \in GarbageValues, h \in GarbageValues}

\* ------------------------------------------------------------------------
\* Flux Provider and Source Provider (test doubles of the collaborators)
\* ------------------------------------------------------------------------
\* a flux that depends on the time and on the state: rows <<t - h, h - q>>
RECURSIVE LinearFlux(_, _, _)
LinearFlux(t, S, k) ==
  IF k = 0 THEN <<>>
  ELSE Append(LinearFlux(t, S, k - 1), <<RSub(t, S[k][1]), RSub(S[k][1], S[k][2])>>)

\* a source that depends on the state: rows <<q, -h>>
RECURSIVE LinearSource(_, _)
LinearSource(S, k) ==
  IF k = 0 THEN <<>>
  ELSE Append(LinearSource(S, k - 1), <<S[k][2], RNeg(S[k][1])>>)

FluxProvider(t, S) ==
  CHOOSE F \in {CASE cfg.fluxKind = "zero" -> MConst(Len(a), Zero)
                  [] cfg.fluxKind = "const" -> MConst(Len(a), cfg.c)
                  [] OTHER -> LinearFlux(x, a, Len(a)) : x \in {t}, a \in {S}} : TRUE

SourceProvider(S) ==
  CHOOSE F \in {CASE cfg.sourceKind = "zero" -> MConst(Len(a), Zero)
                  [] cfg.sourceKind = "const" -> MConst(Len(a), cfg.c)
                  [] OTHER -> LinearSource(a, Len(a)) : a \in {S}} : TRUE

NoTime == <<0, 0>>

\* _finVol->buildFluxVector(t, S): overwrites FiniteVolume's buffer.
\* st is the part of the state a step works on: Sol, the two buffers, the call log.
buildFluxVector(st, t, S) ==
  [st EXCEPT !.fluxVector = FluxProvider(t, S),
             !.calls = Append(@, [fn |-> "buildFluxVector", time |-> t, arg |-> S, sol |-> st.Sol])]

\* _physics->buildSourceTerm(S): overwrites Physics' buffer
buildSourceTerm(st, S) ==
  [st EXCEPT !.sourceTerm = SourceProvider(S),
             !.calls = Append(@, [fn |-> "buildSourceTerm", time |-> NoTime, arg |-> S, sol |-> st.Sol])]

\* ------------------------------------------------------------------------
\* ExplicitEuler::oneStep
\* ------------------------------------------------------------------------
\* line 265 without the division of the flux by dx
ExplicitEuler_oneStep_NoDx(st, t, dt, dx) ==
  LET s1 == buildFluxVector(st, t, st.Sol)
      s2 == buildSourceTerm(s1, s1.Sol)
  IN  [s2 EXCEPT !.Sol = MAdd(@, MScale(dt, MAdd(s2.fluxVector, s2.sourceTerm)))]

ExplicitEuler_oneStep(st, t, dt, dx) ==
  LET s1 == buildFluxVector(st, t, st.Sol)
      s2 == buildSourceTerm(s1, s1.Sol)
  IN  [s2 EXCEPT !.Sol = MAdd(@, MScale(dt, MAdd(MDiv(s2.fluxVector, dx), s2.sourceTerm)))]

\* ------------------------------------------------------------------------
\* RK2::oneStep
\* ------------------------------------------------------------------------
\* lines 310-311: the stage-1 calls
RK2_stage1(st, t) ==
  buildSourceTerm(buildFluxVector(st, t, st.Sol), st.Sol)

\* lines 312-314, 319-321: k = fluxVector / dx + source, a copy of the buffers
RK2_k(st, dx) ==
  MAdd(MDiv(st.fluxVector, dx), st.sourceTerm)

\* lines 317-318 with the two calls swapped: the flux first, then the source
RK2_stage2_FluxFirst(st, t, dt, k1) ==
  LET s3 == buildFluxVector(st, RAdd(t, dt), MAdd(st.Sol, MScale(dt, k1)))
  IN  buildSourceTerm(s3, MAdd(s3.Sol, MScale(dt, k1)))

\* lines 317-318: the stage-2 calls on the trial state _Sol + dt * k1
RK2_stage2(st, t, dt, k1) ==
  LET s3 == buildSourceTerm(st, MAdd(st.Sol, MScale(dt, k1)))
  IN  buildFluxVector(s3, RAdd(t, dt), MAdd(s3.Sol, MScale(dt, k1)))

\* line 324 with = in place of +=
RK2_update_Assign(st, dt, k1, k2) ==
  [st EXCEPT !.Sol = MScale(RMul(Half, dt), MAdd(k1, k2))]

\* line 324: _Sol += 0.5 * dt * (k1 + k2)
RK2_update(st, dt, k1, k2) ==
  [st EXCEPT !.Sol = MAdd(@, MScale(RMul(Half, dt), MAdd(k1, k2)))]

\* s2, k1, s4 and k2 are bound in the order the code computes them
RK2_oneStep(st, t, dt, dx) ==
  CHOOSE r \in
    UNION {UNION {UNION {{RK2_update(s4, dt, k1, k2) : k2 \in {RK2_k(s4, dx)}}
                         : s4 \in {RK2_stage2(s2, t, dt, k1)}}
                  : k1 \in {RK2_k(s2, dx)}}
           : s2 \in {RK2_stage1(st, t)}} : TRUE

\* the virtual call oneStep() of line 155
oneStep(st, t, dt, dx) ==
  IF cfg.scheme = "RK2" THEN RK2_oneStep(st, t, dt, dx)
                        ELSE ExplicitEuler_oneStep(st, t, dt, dx)

\* ------------------------------------------------------------------------
\* TimeScheme::buildProbesCellIndices
\* ------------------------------------------------------------------------
\* cellCenters(k), k 0-based
CellCenter(k) ==
  cfg.cellCenters[k + 1]

\* the inner loop with dist <= distMin: the last nearest center wins
RECURSIVE ScanCells_LastWins(_, _, _, _)
ScanCells_LastWins(pos, k, index, distMin) ==
  IF k >= NbCells THEN index
  ELSE LET dist == RAbs(RSub(pos, CellCenter(k)))
       IN  IF RLeq(dist, distMin) THEN ScanCells_LastWins(pos, k + 1, k, dist)
                                  ELSE ScanCells_LastWins(pos, k + 1, index, distMin)

\* the inner loop from cell k on, with the running index and distMin
RECURSIVE ScanCells(_, _, _, _)
ScanCells(pos, k, index, distMin) ==
  IF k >= NbCells THEN index
  ELSE LET dist == RAbs(RSub(pos, CellCenter(k)))
       IN  IF RLess(dist, distMin) THEN ScanCells(pos, k + 1, k, dist)
                                   ELSE ScanCells(pos, k + 1, index, distMin)

ProbeCellIndex(pos) ==
  ScanCells(pos, 0, 0, RAbs(RSub(pos, CellCenter(0))))

buildProbesCellIndices(indices) ==
  [i \in 1..Len(indices) |-> IF i <= nProbes THEN ProbeCellIndex(probesPos[i]) ELSE indices[i]]

\* ------------------------------------------------------------------------
\* Output files
\* ------------------------------------------------------------------------
\* resultsDir + "/solution_" + fluxName + "_" + std::to_string(k) + ".txt":
\* two names are equal exactly when their k are
SolutionFileName(k) ==
  <<"solution", k>>

TopographyFileName ==
  <<"topography", 0>>

\* std::ofstream(fileName, std::ios::out): the file is created or truncated
WriteFile(fs, name, content) ==
  [x \in DOMAIN fs \cup {name} |-> IF x = name THEN content ELSE fs[x]]

\* TimeScheme::saveCurrentSolution: one header line, one row per row of _Sol
saveCurrentSolution(fs, name, sol) ==
  WriteFile(fs, name, [header |-> 1, rows |-> Len(sol), sol |-> sol])

\* TimeScheme::saveProbes: one record appended per probe of the DataFile
saveProbes(pf, t, sol) ==
  [r \in DOMAIN pf |->
     LET mine == {i \in 1..Len(cfg.probesPos) : probesRef[i] = r}
     IN  IF mine = {} THEN pf[r]
         ELSE LET i == CHOOSE j \in mine : TRUE
              IN  Append(pf[r], [time |-> t, cell |-> probesIndices[i], row |-> sol[probesIndices[i] + 1]])]

\* ------------------------------------------------------------------------
\* Construction
\* ------------------------------------------------------------------------
\* line 165 divides by getSaveFrequency()/10, which is 0 for a frequency below 10
ProbeDivisor == 10

DividesByZero(c) ==
  Len(c.probesPos) # 0 /\ c.saveFrequency \div ProbeDivisor = 0

\* integer division by zero is undefined: the process traps, or the remainder
\* comes out as zero or as nonzero
DivByZeroOutcomes == {"trap", "zero", "nonzero"}

\* TimeScheme::TimeScheme(DF, mesh, physics, finVol), and the derived
\* constructors that forward to it
FullConstructor ==
  /\ ctor = "full"
  /\ ready = TRUE
  /\ Sol = cfg.initialCondition
  /\ timeStep = cfg.timeStep
  /\ initialTime = cfg.initialTime
  /\ finalTime = cfg.finalTime
  /\ currentTime = cfg.initialTime
  /\ nProbes = Len(cfg.probesPos)
  /\ probesRef = cfg.probesRef
  /\ probesPos = cfg.probesPos
  /\ probesIndices = [i \in 1..Len(cfg.probesPos) |-> 0]

\* TimeScheme::TimeScheme(): _Sol and the vectors are empty, the scalars are not set
DefaultConstructor ==
  /\ ctor = "default"
  /\ ready = FALSE
  /\ Sol = <<>>
  /\ timeStep = NaR
  /\ initialTime = NaR
  /\ finalTime = NaR
  /\ currentTime = NaR
  /\ nProbes = IndetInt
  /\ probesRef = <<>>
  /\ probesPos = <<>>
  /\ probesIndices = <<>>

\* a constructed object, its collaborators drawn from C
Constructed(C) ==
  /\ cfg \in C
  /\ build \in (IF DividesByZero(cfg) THEN DivByZeroOutcomes ELSE {"trap"})
  /\ initialized = "none"
  /\ pc = "Constructed"
  /\ n = 0
  /\ files = <<>>
  /\ snapshots = <<>>
  /\ probeFiles = [r \in {cfg.probesRef[i] : i \in 1..Len(cfg.probesPos)} |-> <<>>]
  /\ fluxVector = <<>>
  /\ sourceTerm = <<>>
  /\ calls = <<>>

\* the program's run: an object built by the four-argument constructor
Init ==
  Constructed(Configs) /\ FullConstructor

\* either constructor, then Initialize or not
LifecycleInit ==
  Constructed(StepConfigs \cup ProbeConfigs) /\ (FullConstructor \/ DefaultConstructor)

\* ------------------------------------------------------------------------
\* Initialize
\* ------------------------------------------------------------------------
\* std::vector<int>::resize(count, 0)
VectorResize(v, count) ==
  [i \in 1..count |-> IF i <= Len(v) THEN v[i] ELSE 0]

\* TimeScheme::Initialize
TimeScheme_Initialize ==
  /\ pc = "Constructed"
  /\ initialized = "none"
  /\ initialized' = "TimeScheme"
  /\ ready' = TRUE
  /\ Sol' = cfg.initialCondition
  /\ timeStep' = cfg.timeStep
  /\ initialTime' = cfg.initialTime
  /\ finalTime' = cfg.finalTime
  /\ currentTime' = cfg.initialTime
  /\ nProbes' = Len(cfg.probesPos)
  /\ probesRef' = cfg.probesRef
  /\ probesPos' = cfg.probesPos
  /\ probesIndices' = VectorResize(probesIndices, Len(cfg.probesPos))
  /\ UNCHANGED <<cfg, build, ctor, pc, n, files, snapshots, probeFiles, fluxVector,
                 sourceTerm, calls>>

\* Eigen's _Sol.resize(rows, 2): nothing happens when the size is unchanged;
\* otherwise the storage is reallocated and its coefficients are uninitialised
MatrixResize(M, nRows) ==
  IF Len(M) = nRows THEN {M} ELSE GarbageMatrices(nRows)

\* ExplicitEuler::Initialize: _Sol is resized, not assigned; the probe members
\* are left as they were
ExplicitEuler_Initialize ==
  /\ pc = "Constructed"
  /\ initialized = "none"
  /\ cfg.scheme = "ExplicitEuler"
  /\ initialized' = "ExplicitEuler"
  /\ Sol' \in MatrixResize(Sol, NbCells)
  /\ timeStep' = cfg.timeStep
  /\ initialTime' = cfg.initialTime
  /\ finalTime' = cfg.finalTime
  /\ currentTime' = cfg.initialTime
  /\ UNCHANGED <<cfg, build, ctor, ready, pc, nProbes, probesRef, probesPos,
                 probesIndices, n, files, snapshots, probeFiles, fluxVector,
                 sourceTerm, calls>>

\* RK2::Initialize: the same statements as ExplicitEuler::Initialize
RK2_Initialize ==
  /\ pc = "Constructed"
  /\ initialized = "none"
  /\ cfg.scheme = "RK2"
  /\ initialized' = "RK2"
  /\ Sol' \in MatrixResize(Sol, NbCells)
  /\ timeStep' = cfg.timeStep
  /\ initialTime' = cfg.initialTime
  /\ finalTime' = cfg.finalTime
  /\ currentTime' = cfg.initialTime
  /\ UNCHANGED <<cfg, build, ctor, ready, pc, nProbes, probesRef, probesPos,
                 probesIndices, n, files, snapshots, probeFiles, fluxVector,
                 sourceTerm, calls>>

\* ------------------------------------------------------------------------
\* TimeScheme::solve
\* ------------------------------------------------------------------------
\* line 153
LoopCondition ==
  RLess(currentTime, finalTime)

\* line 159, with the test made on the counter before its increment
SnapshotDue_BeforeIncrement(iter) ==
  ~cfg.saveFinalTimeOnly /\ (iter - 1) % cfg.saveFrequency = 0

\* line 159, without the test of isSaveFinalTimeOnly()
SnapshotDue_IgnoreFlag(iter) ==
  iter % cfg.saveFrequency = 0

\* line 159
SnapshotDue(iter) ==
  ~cfg.saveFinalTimeOnly /\ iter % cfg.saveFrequency = 0

\* line 165, when the divisor is not zero
ProbesDue(iter) ==
  nProbes # 0 /\ iter % (cfg.saveFrequency \div ProbeDivisor) = 0

\* lines 133-150: the initial snapshot, the topography file, the probe indices
SolveBegin ==
  /\ pc = "Constructed"
  /\ ready
  /\ pc' = "Stepping"
  /\ n' = 0
  /\ files' = WriteFile(saveCurrentSolution(files, SolutionFileName(0), Sol),
                        TopographyFileName, [header |-> 0, rows |-> Len(Sol), sol |-> <<>>])
  /\ snapshots' = Append(snapshots, [iter |-> 0, name |-> SolutionFileName(0), phase |-> "initial"])
  /\ probesIndices' = buildProbesCellIndices(probesIndices)
  /\ UNCHANGED <<cfg, build, ctor, initialized, ready, Sol, timeStep, initialTime,
                 finalTime, currentTime, nProbes, probesRef, probesPos, probeFiles,
                 fluxVector, sourceTerm, calls>>

\* lines 153-169: one iteration of the time loop
LoopStep ==
  /\ pc = "Stepping"
  /\ LoopCondition
  /\ \E st \in {oneStep([Sol |-> Sol, fluxVector |-> fluxVector, sourceTerm |-> sourceTerm,
                           calls |-> <<>>], currentTime, timeStep, cfg.spaceStep)} :
     LET iter == n + 1
         now == RAdd(currentTime, timeStep)
         divZero == nProbes # 0 /\ cfg.saveFrequency \div ProbeDivisor = 0
         due == IF divZero THEN build = "zero" ELSE ProbesDue(iter)
     IN  /\ Sol' = st.Sol
         /\ fluxVector' = st.fluxVector
         /\ sourceTerm' = st.sourceTerm
         /\ calls' = st.calls
         /\ n' = iter
         /\ currentTime' = now
         /\ IF SnapshotDue(iter)
              THEN /\ files' = saveCurrentSolution(files, SolutionFileName(iter \div cfg.saveFrequency), st.Sol)
                   /\ snapshots' = Append(snapshots, [iter |-> iter, name |-> SolutionFileName(iter \div cfg.saveFrequency), phase |-> "loop"])
              ELSE UNCHANGED <<files, snapshots>>
         /\ probeFiles' = IF due /\ ~(divZero /\ build = "trap") THEN saveProbes(probeFiles, now, st.Sol) ELSE probeFiles
         /\ pc' = IF divZero /\ build = "trap" THEN "Crashed" ELSE "Stepping"
  /\ UNCHANGED <<cfg, build, ctor, initialized, ready, timeStep, initialTime, finalTime,
                 nProbes, probesRef, probesPos, probesIndices>>

\* lines 170-191: the end of solve().  The test-case report (lines 176-185)
\* reads the state and writes none of the variables modelled here.
LoopExit ==
  /\ pc = "Stepping"
  /\ ~LoopCondition
  /\ pc' = "Finished"
  /\ IF cfg.saveFinalTimeOnly
       THEN /\ files' = saveCurrentSolution(files, SolutionFileName(n \div cfg.saveFrequency), Sol)
            /\ snapshots' = Append(snapshots, [iter |-> n, name |-> SolutionFileName(n \div cfg.saveFrequency), phase |-> "final"])
       ELSE UNCHANGED <<files, snapshots>>
  /\ UNCHANGED <<cfg, build, ctor, initialized, ready, Sol, timeStep, initialTime,
                 finalTime, currentTime, nProbes, probesRef, probesPos, probesIndices,
                 n, probeFiles, fluxVector, sourceTerm, calls>>

Next ==
  \/ SolveBegin
  \/ LoopStep
  \/ LoopExit

Spec == Init /\ [][Next]_vars

LifecycleNext ==
  \/ TimeScheme_Initialize
  \/ ExplicitEuler_Initialize
  \/ RK2_Initialize
  \/ SolveBegin
  \/ LoopStep
  \/ LoopExit

LifecycleSpec == LifecycleInit /\ [][LifecycleNext]_vars

\* solve() runs to its end once called: the loop is sequential code
FairSpec == Spec /\ WF_vars(Next)

\* ------------------------------------------------------------------------
\* Properties
\* ------------------------------------------------------------------------
\* solve() has been called
Running == pc \in {"Stepping", "Finished", "Crashed"}

\* the action is one iteration of the time loop
IsStep == pc = "Stepping" /\ n' = n + 1

\* C1: one RK2::oneStep() from clock t and state S calls buildFluxVector(t, S),
\* buildSourceTerm(S), buildSourceTerm(S + dt*k1), buildFluxVector(t + dt, S + dt*k1)
\* in this order, with k1 = Flux(t,S)/dx + Source(S); _Sol is still S at each of the
\* four calls; the step ends with _Sol = S + 0.5*dt*(k1 + k2), k1 the stage-1 value,
\* while the collaborators' buffers hold the stage-2 results.
C1_RK2CallOrder ==
  [][(IsStep /\ cfg.scheme = "RK2") =>
       LET S == Sol
           t == currentTime
           dt == timeStep
           dx == cfg.spaceStep
           k1 == MAdd(MDiv(FluxProvider(t, S), dx), SourceProvider(S))
           trial == MAdd(S, MScale(dt, k1))
           k2 == MAdd(MDiv(FluxProvider(RAdd(t, dt), trial), dx), SourceProvider(trial))
       IN  /\ calls' = << [fn |-> "buildFluxVector", time |-> t, arg |-> S, sol |-> S],
                          [fn |-> "buildSourceTerm", time |-> NoTime, arg |-> S, sol |-> S],
                          [fn |-> "buildSourceTerm", time |-> NoTime, arg |-> trial, sol |-> S],
                          [fn |-> "buildFluxVector", time |-> RAdd(t, dt), arg |-> trial, sol |-> S] >>
           /\ Sol' = MAdd(S, MScale(RMul(Half, dt), MAdd(k1, k2)))
           /\ fluxVector' = FluxProvider(RAdd(t, dt), trial)
           /\ sourceTerm' = SourceProvider(trial)]_vars

\* C1 witness: a second RK2 step has run on providers that depend on time and state,
\* its trial state differs from the state it started from, and the stage-2 flux
\* left in the buffer differs from the stage-1 flux
C1_Witness ==
  /\ Running /\ n >= 2
  /\ cfg.scheme = "RK2" /\ cfg.fluxKind = "linear" /\ cfg.sourceKind = "linear"
  /\ Len(calls) = 4
  /\ calls[3].arg # calls[1].arg
  /\ fluxVector # FluxProvider(calls[1].time, calls[1].arg)

\* the displacement n * dt * rate on every cell and both quantities
Drift(rate) ==
  MConst(NbCells, RMul(RMul(R(n), timeStep), rate))

ConstantFluxRun ==
  Running /\ cfg.fluxKind = "const" /\ cfg.sourceKind = "zero"

\* C2 as stated: with the flux provider constant c and the source provider zero,
\* the state after k steps is State_0 + k*dt*c, for ExplicitEuler and for RK2.
C2_Original ==
  ConstantFluxRun => Sol = MAdd(cfg.initialCondition, Drift(cfg.c))

\* C2 amended: with the flux provider constant c and the source provider zero, the
\* state after k steps is State_0 + k*dt*c/dx, for ExplicitEuler and for RK2.
C2_ConstantFlux ==
  ConstantFluxRun => Sol = MAdd(cfg.initialCondition, Drift(RDiv(cfg.c, cfg.spaceStep)))

\* C2 witness: three or more RK2 steps on a constant flux with dx # 1
C2_Witness ==
  /\ ConstantFluxRun /\ cfg.scheme = "RK2" /\ n >= 3
  /\ cfg.spaceStep # R(1) /\ cfg.c # R(1)
  /\ Sol # cfg.initialCondition

\* C3: with the flux and source providers zero on every cell, the state equals the
\* initial state in every reachable state of solve(), for ExplicitEuler and RK2.
C3_ZeroProvidersFixedPoint ==
  (Running /\ cfg.fluxKind = "zero" /\ cfg.sourceKind = "zero") => Sol = cfg.initialCondition

\* C3 witness: five or more RK2 steps with zero providers, to the end of solve()
C3_Witness ==
  /\ pc = "Finished" /\ n >= 5 /\ cfg.scheme = "RK2"
  /\ cfg.fluxKind = "zero" /\ cfg.sourceKind = "zero"
  /\ Len(calls) = 4

\* C4: after Initialize returns, whichever body ran (TimeScheme, ExplicitEuler, RK2),
\* _Sol equals the physics' initial condition and the clock the initial time.
C4_InitializeSetsState ==
  (pc = "Constructed" /\ initialized # "none") =>
     Sol = cfg.initialCondition /\ currentTime = cfg.initialTime

\* C5: with a positive time step, the time loop of solve() eventually reaches Finished.
C5_ReachesFinished ==
  <>(pc = "Finished")

\* C5, the loop test: a step is performed only when clock < final time held before
\* it, and advances the clock by dt and the counter by 1.
C5_StepGuard ==
  [][IsStep => /\ RLess(currentTime, finalTime)
               /\ currentTime' = RAdd(currentTime, timeStep)]_vars

\* C5, the clock at Finished as stated: final time <= clock < final time + dt.
C5_ClockAtFinishedOriginal ==
  pc = "Finished" =>
     RLeq(finalTime, currentTime) /\ RLess(currentTime, RAdd(finalTime, timeStep))

\* C5, the clock at Finished as the code has it: final time <= clock; no step when
\* the initial time is at or past the final time; clock < final time + dt when a
\* step was performed.
C5_ClockAtFinished ==
  pc = "Finished" =>
     /\ RLeq(finalTime, currentTime)
     /\ RLeq(finalTime, initialTime) => (n = 0 /\ currentTime = initialTime)
     /\ n >= 1 => RLess(currentTime, RAdd(finalTime, timeStep))

\* the iterations after which a snapshot was taken, the initial one aside
LoopSnapshotIters ==
  {snapshots[i].iter : i \in 2..Len(snapshots)}

\* C6: when not saving the final snapshot only, with frequency f >= 1 and K steps
\* performed, solve() has emitted the initial snapshot at iteration 0 and then exactly
\* one snapshot after each iteration in 1..K that is a multiple of f, and no other:
\* K \div f snapshots beyond the initial one; each has one header line and one row
\* per cell.
C6_PeriodicSnapshots ==
  (Running /\ ~cfg.saveFinalTimeOnly) =>
     /\ Len(snapshots) = 1 + (n \div cfg.saveFrequency)
     /\ snapshots[1].iter = 0 /\ snapshots[1].phase = "initial"
     /\ LoopSnapshotIters = {m \in 1..n : m % cfg.saveFrequency = 0}
     /\ \A i \in 2..Len(snapshots) : snapshots[i].phase = "loop"
     /\ \A i \in 1..Len(snapshots) :
          /\ snapshots[i].name \in DOMAIN files
          /\ files[snapshots[i].name].header = 1
          /\ files[snapshots[i].name].rows = NbCells

\* C6 witness: f = 4 and 12 steps: three snapshots beyond the initial one, after
\* iterations 4, 8 and 12
C6_Witness ==
  /\ pc = "Finished" /\ ~cfg.saveFinalTimeOnly
  /\ cfg.saveFrequency = 4 /\ n = 12
  /\ Len(snapshots) = 4
  /\ LoopSnapshotIters = {4, 8, 12}

\* C7: when saving the final snapshot only, no snapshot is emitted inside the time
\* loop, and exactly one is emitted after the loop has ended, holding the state
\* reached after the last step; otherwise none is emitted after the loop has ended.
C7_FinalSnapshotOnly ==
  Running =>
     LET loopOnes == {i \in 1..Len(snapshots) : snapshots[i].phase = "loop"}
         finalOnes == {i \in 1..Len(snapshots) : snapshots[i].phase = "final"}
     IN  /\ cfg.saveFinalTimeOnly => loopOnes = {}
         /\ (cfg.saveFinalTimeOnly /\ pc = "Finished") =>
               /\ finalOnes = {Len(snapshots)}
               /\ snapshots[Len(snapshots)].iter = n
               /\ files[snapshots[Len(snapshots)].name].sol = Sol
         /\ (cfg.saveFinalTimeOnly /\ pc # "Finished") => finalOnes = {}
         /\ ~cfg.saveFinalTimeOnly => finalOnes = {}

\* C7 witness: a run saving the final snapshot only has ended after 8 or more steps
\* with f = 4, on a state the steps have changed
C7_Witness ==
  /\ pc = "Finished" /\ cfg.saveFinalTimeOnly
  /\ cfg.saveFrequency = 4 /\ n >= 8
  /\ Sol # cfg.initialCondition
  /\ Len(snapshots) = 2

\* C8: with at least one probe, for every frequency f >= 1, solve() appends exactly
\* one record per probe after step n if n is a multiple of f/10 and none otherwise;
\* with no probe, no record is ever appended.
C8_ProbeCadence ==
  [][IsStep =>
       IF Len(cfg.probesPos) >= 1 /\ (10 * n') % cfg.saveFrequency = 0
         THEN \A r \in DOMAIN probeFiles : Len(probeFiles'[r]) = Len(probeFiles[r]) + 1
         ELSE probeFiles' = probeFiles]_vars

\* |pos - cellCenters(k)|
Distance(pos, k) ==
  RAbs(RSub(pos, cfg.cellCenters[k + 1]))

\* C9: buildProbesCellIndices() resolves every probe position to the index of a cell
\* center at minimum absolute distance, the lowest such index; for centers
\* [0,1,2,3,4], 2.4 resolves to 2 and 2.5 to 2; there are as many indices as positions.
C9_NearestCellLowestIndex ==
  Running =>
     /\ Len(probesIndices) = Len(cfg.probesPos)
     /\ \A i \in 1..Len(cfg.probesPos) :
          LET pos == cfg.probesPos[i]
              k == probesIndices[i]
          IN  /\ k \in 0..(NbCells - 1)
              /\ \A j \in 0..(NbCells - 1) :
                   /\ RLeq(Distance(pos, k), Distance(pos, j))
                   /\ j < k => RLess(Distance(pos, k), Distance(pos, j))
              /\ (cfg.cellCenters = Mesh5.cellCenters /\ pos \in {Q(12, 5), Q(5, 2)}) => k = 2

\* C9 witness: on centers [0,1,2,3,4] the probes at 2.5 and 2.4 both resolved to 2
C9_Witness ==
  /\ Running
  /\ cfg.cellCenters = Mesh5.cellCenters
  /\ cfg.probesPos = <<Q(5, 2), Q(12, 5)>>
  /\ probesIndices = <<2, 2>>

\* C10: within one run of solve(), no two emitted snapshots are written to the same
\* file name, in the periodic mode and in the save-final-only mode, for every
\* frequency f >= 1 and every step count K.
C10_DistinctSnapshotNames ==
  \A i \in 1..Len(snapshots) : \A j \in 1..Len(snapshots) :
     i # j => snapshots[i].name # snapshots[j].name

====
